---- MODULE Spec2Model ----
(***************************************************************************)
(* Rotated-rectangle annotation tool (src/annotation.py).                  *)
(*                                                                         *)
(* The module models                                                       *)
(*   - rectangle_w_angle and the derivation of annotate_image, computed in *)
(*     binary floating point with round-to-nearest-even, as numpy does;    *)
(*   - main: the loop over the images and, per image, the annotation       *)
(*     session writing the annotation file.                                *)
(*                                                                         *)
(* Floating point.  numpy computes in float64 (53-bit significand).  TLC   *)
(* integers are 32 bits wide, so the model keeps the format and its        *)
(* rounding rule and narrows the significand to Prec bits.  A number is    *)
(* <<m, e>>, of value m * 2^e, with m = 0 (and e = 0) or                   *)
(* 2^(Prec-1) <= |m| < 2^Prec.  Every operation returns the exact result   *)
(* rounded to the nearest such number, ties to even.  The exponent is      *)
(* unbounded (no overflow or underflow happens on the inputs used), and    *)
(* the sign of zero is not kept.                                           *)
(***************************************************************************)
EXTENDS Integers, Sequences, FiniteSets, TLC

VARIABLES
  pc,        \* position in main (or in the function called on its own)
  idx,       \* index into imgFiles of the image of the for loop (line 71)
  disk,      \* annotation directory: per image, the annotation file
  prior,     \* the annotation directory as it was when main started
  handles,   \* images whose anno_file handle is open
  figOpen,   \* plt.fignum_exists(fig.number)
  pts,       \* points plt.ginput returned to the annotate_image in progress
  vertices,  \* value returned by the last annotate_image / rectangle_w_angle
  wi,        \* loop variable i of the write loop (line 107)
  rects,     \* history: per image, the vertices annotate_image returned
  call       \* arguments of rectangle_w_angle when called on its own

vars == <<pc, idx, disk, prior, handles, figOpen, pts, vertices, wi, rects, call>>

(***************************************************************************)
(* Bounds.                                                                 *)
(***************************************************************************)
NImages == 2      \* images the listing returns
MaxRects == 2     \* rectangles the user completes in one run of main
MaxGrid == 2      \* click coordinates are 0, 5, .., 5 * MaxGrid

(***************************************************************************)
(* Floating point arithmetic.                                              *)
(***************************************************************************)
\* Significand width.  At 10 bits the second reference scenario rounds the
\* way it does at 53: v2.x and v4.y come out as small positive numbers and
\* v3.x as the number next to -5.
Prec == 10

Pow2(k) == 2 ^ k

Abs(n) == IF n < 0 THEN -n ELSE n

RECURSIVE BitLen(_)
BitLen(a) == IF a = 0 THEN 0 ELSE 1 + BitLen(a \div 2)

Zero == <<0, 0>>

\* n * 2^e rounded to Prec significant bits, nearest, ties to even.
FRound(n, e) ==
  IF n = 0 THEN Zero
  ELSE LET s == IF n > 0 THEN 1 ELSE -1
           a == Abs(n)
           L == BitLen(a)
       IN IF L <= Prec
          THEN <<s * a * Pow2(Prec - L), e - (Prec - L)>>
          ELSE LET sh == L - Prec
                   q == a \div Pow2(sh)
                   r == a % Pow2(sh)
                   half == Pow2(sh - 1)
                   up == r > half \/ (r = half /\ q % 2 = 1)
                   q1 == IF up THEN q + 1 ELSE q
               IN IF q1 = Pow2(Prec)
                  THEN <<s * Pow2(Prec - 1), e + sh + 1>>
                  ELSE <<s * q1, e + sh>>

FromInt(n) == FRound(n, 0)

FNeg(a) == <<-a[1], a[2]>>

\* a + b.  An operand below a quarter of the other's last place cannot
\* change the rounded sum.
FAdd(a, b) ==
  IF a[1] = 0 THEN b
  ELSE IF b[1] = 0 THEN a
  ELSE IF a[2] - b[2] > Prec + 2 THEN a
  ELSE IF b[2] - a[2] > Prec + 2 THEN b
  ELSE LET em == IF a[2] < b[2] THEN a[2] ELSE b[2]
       IN FRound(a[1] * Pow2(a[2] - em) + b[1] * Pow2(b[2] - em), em)

FSub(a, b) == FAdd(a, FNeg(b))

FMul(a, b) == FRound(a[1] * b[1], a[2] + b[2])

\* a / b: the quotient to Prec + 2 bits and a sticky bit, then rounded.
FDiv(a, b) ==
  IF a[1] = 0 THEN Zero
  ELSE LET s == IF (a[1] > 0) = (b[1] > 0) THEN 1 ELSE -1
           n == Abs(a[1]) * Pow2(Prec + 2)
           d == Abs(b[1])
           q == n \div d
           st == IF n % d = 0 THEN 0 ELSE 1
       IN FRound(s * (2 * q + st), a[2] - b[2] - Prec - 3)

RECURSIVE ISqrtFrom(_, _, _)
ISqrtFrom(n, r, b) ==
  IF b = 0 THEN r
  ELSE IF (r + b) * (r + b) <= n THEN ISqrtFrom(n, r + b, b \div 2)
  ELSE ISqrtFrom(n, r, b \div 2)

ISqrt(n) == ISqrtFrom(n, 0, Pow2(Prec + 2))

\* sqrt(a), a >= 0: the root to Prec + 1 bits and a sticky bit, then rounded.
FSqrt(a) ==
  IF a[1] = 0 THEN Zero
  ELSE LET k == IF (a[2] - (Prec + 2)) % 2 = 0 THEN Prec + 2 ELSE Prec + 3
           n == a[1] * Pow2(k)
           r == ISqrt(n)
           st == IF r * r = n THEN 0 ELSE 1
       IN FRound(2 * r + st, ((a[2] - k) \div 2) - 1)

\* np.pi (pi rounded to Prec bits: 804 * 2^-8 = 3.140625), and the 180 of
\* the degree conversions.
NpPi == <<804, -8>>
F180 == FromInt(180)

(***************************************************************************)
(* np.cos, np.sin and np.arctan2 are library routines returning the        *)
(* correctly rounded value of the real function.  The tables hold that     *)
(* value, at Prec bits, for every argument the bounded inputs produce:     *)
(* <<theta, cos theta, sin theta>> and <<dy, dx, arctan2(dy, dx)>>.        *)
(***************************************************************************)
TrigTable ==
  { <<<<-722, -8>>, <<-972, -10>>, <<-647, -11>>>>,
    <<<<-687, -8>>, <<-918, -10>>, <<-906, -11>>>>,
    <<<<-655, -8>>, <<-855, -10>>, <<-564, -10>>>>,
    <<<<-603, -8>>, <<-724, -10>>, <<-725, -10>>>>,
    <<<<-554, -8>>, <<-572, -10>>, <<-849, -10>>>>,
    <<<<-522, -8>>, <<-924, -11>>, <<-914, -10>>>>,
    <<<<-969, -9>>, <<-648, -11>>, <<-971, -10>>>>,
    <<<<-804, -9>>, <<1015, -21>>, <<-512, -9>>>>,
    <<<<-640, -9>>, <<646, -11>>, <<-972, -10>>>>,
    <<<<-567, -9>>, <<915, -11>>, <<-916, -10>>>>,
    <<<<-1005, -10>>, <<569, -10>>, <<-851, -10>>>>,
    <<<<-804, -10>>, <<724, -10>>, <<-724, -10>>>>,
    <<<<-602, -10>>, <<852, -10>>, <<-568, -10>>>>,
    <<<<-951, -11>>, <<916, -10>>, <<-917, -11>>>>,
    <<<<-659, -11>>, <<971, -10>>, <<-648, -11>>>>,
    <<<<0, 0>>, <<512, -9>>, <<0, 0>>>>,
    <<<<659, -11>>, <<971, -10>>, <<648, -11>>>>,
    <<<<951, -11>>, <<916, -10>>, <<917, -11>>>>,
    <<<<536, -10>>, <<887, -10>>, <<512, -10>>>>,
    <<<<602, -10>>, <<852, -10>>, <<568, -10>>>>,
    <<<<804, -10>>, <<724, -10>>, <<724, -10>>>>,
    <<<<1005, -10>>, <<569, -10>>, <<851, -10>>>>,
    <<<<567, -9>>, <<915, -11>>, <<916, -10>>>>,
    <<<<640, -9>>, <<646, -11>>, <<972, -10>>>>,
    <<<<804, -9>>, <<1015, -21>>, <<512, -9>>>>,
    <<<<969, -9>>, <<-648, -11>>, <<971, -10>>>>,
    <<<<522, -8>>, <<-924, -11>>, <<914, -10>>>>,
    <<<<554, -8>>, <<-572, -10>>, <<849, -10>>>>,
    <<<<603, -8>>, <<-724, -10>>, <<725, -10>>>>,
    <<<<655, -8>>, <<-855, -10>>, <<564, -10>>>>,
    <<<<687, -8>>, <<-918, -10>>, <<906, -11>>>>,
    <<<<722, -8>>, <<-972, -10>>, <<647, -11>>>>,
    <<<<804, -8>>, <<-512, -9>>, <<1015, -20>>>> }

Atan2Table ==
  { <<<<-960, -6>>, <<-960, -6>>, <<-603, -8>>>>,
    <<<<-960, -6>>, <<-640, -6>>, <<-553, -8>>>>,
    <<<<-960, -6>>, <<-640, -7>>, <<-969, -9>>>>,
    <<<<-960, -6>>, <<0, 0>>, <<-804, -9>>>>,
    <<<<-960, -6>>, <<640, -7>>, <<-640, -9>>>>,
    <<<<-960, -6>>, <<640, -6>>, <<-1006, -10>>>>,
    <<<<-960, -6>>, <<960, -6>>, <<-804, -10>>>>,
    <<<<-640, -6>>, <<-960, -6>>, <<-654, -8>>>>,
    <<<<-640, -6>>, <<-640, -6>>, <<-603, -8>>>>,
    <<<<-640, -6>>, <<-640, -7>>, <<-521, -8>>>>,
    <<<<-640, -6>>, <<0, 0>>, <<-804, -9>>>>,
    <<<<-640, -6>>, <<640, -7>>, <<-567, -9>>>>,
    <<<<-640, -6>>, <<640, -6>>, <<-804, -10>>>>,
    <<<<-640, -6>>, <<960, -6>>, <<-602, -10>>>>,
    <<<<-640, -7>>, <<-960, -6>>, <<-722, -8>>>>,
    <<<<-640, -7>>, <<-640, -6>>, <<-686, -8>>>>,
    <<<<-640, -7>>, <<-640, -7>>, <<-603, -8>>>>,
    <<<<-640, -7>>, <<0, 0>>, <<-804, -9>>>>,
    <<<<-640, -7>>, <<640, -7>>, <<-804, -10>>>>,
    <<<<-640, -7>>, <<640, -6>>, <<-950, -11>>>>,
    <<<<-640, -7>>, <<960, -6>>, <<-659, -11>>>>,
    <<<<0, 0>>, <<-960, -6>>, <<804, -8>>>>,
    <<<<0, 0>>, <<-640, -6>>, <<804, -8>>>>,
    <<<<0, 0>>, <<-640, -7>>, <<804, -8>>>>,
    <<<<0, 0>>, <<0, 0>>, <<0, 0>>>>,
    <<<<0, 0>>, <<640, -7>>, <<0, 0>>>>,
    <<<<0, 0>>, <<640, -6>>, <<0, 0>>>>,
    <<<<0, 0>>, <<960, -6>>, <<0, 0>>>>,
    <<<<640, -7>>, <<-960, -6>>, <<722, -8>>>>,
    <<<<640, -7>>, <<-640, -6>>, <<686, -8>>>>,
    <<<<640, -7>>, <<-640, -7>>, <<603, -8>>>>,
    <<<<640, -7>>, <<0, 0>>, <<804, -9>>>>,
    <<<<640, -7>>, <<640, -7>>, <<804, -10>>>>,
    <<<<640, -7>>, <<640, -6>>, <<950, -11>>>>,
    <<<<640, -7>>, <<960, -6>>, <<659, -11>>>>,
    <<<<640, -6>>, <<-960, -6>>, <<654, -8>>>>,
    <<<<640, -6>>, <<-640, -6>>, <<603, -8>>>>,
    <<<<640, -6>>, <<-640, -7>>, <<521, -8>>>>,
    <<<<640, -6>>, <<0, 0>>, <<804, -9>>>>,
    <<<<640, -6>>, <<640, -7>>, <<567, -9>>>>,
    <<<<640, -6>>, <<640, -6>>, <<804, -10>>>>,
    <<<<640, -6>>, <<960, -6>>, <<602, -10>>>>,
    <<<<960, -6>>, <<-960, -6>>, <<603, -8>>>>,
    <<<<960, -6>>, <<-640, -6>>, <<553, -8>>>>,
    <<<<960, -6>>, <<-640, -7>>, <<969, -9>>>>,
    <<<<960, -6>>, <<0, 0>>, <<804, -9>>>>,
    <<<<960, -6>>, <<640, -7>>, <<640, -9>>>>,
    <<<<960, -6>>, <<640, -6>>, <<1006, -10>>>>,
    <<<<960, -6>>, <<960, -6>>, <<804, -10>>>> }

NpCos(theta) == (CHOOSE r \in TrigTable : r[1] = theta)[2]

NpSin(theta) == (CHOOSE r \in TrigTable : r[1] = theta)[3]

NpArctan2(dy, dx) == (CHOOSE r \in Atan2Table : r[1] = dy /\ r[2] = dx)[3]

\* np.deg2rad(a) is a * (pi / 180).
NpDeg2Rad(a) == FMul(a, FDiv(NpPi, F180))

VAdd(p, q) == <<FAdd(p[1], q[1]), FAdd(p[2], q[2])>>

VScale(k, p) == <<FMul(k, p[1]), FMul(k, p[2])>>

(***************************************************************************)
(* rectangle_w_angle (lines 7-28).  The 2x4 array it returns is kept as    *)
(* its four columns <<v1, v2, v3, v4>>, each column a point <<x, y>>.      *)
(***************************************************************************)
Direction(theta) == <<NpCos(theta), NpSin(theta)>>

\* The perpendicular with the sign of its first component lost.
MutPerpSign(theta) == <<NpSin(theta), NpCos(theta)>>

Perp(theta) == <<FNeg(NpSin(theta)), NpCos(theta)>>

\* The columns stacked in the order v1, v2, v4, v3.
MutRectOrder(x, y, width, height, angle_deg) ==
  LET theta == NpDeg2Rad(angle_deg)
      v1 == <<x, y>>
      v2 == VAdd(v1, VScale(width, <<NpCos(theta), NpSin(theta)>>))
      perp == <<FNeg(NpSin(theta)), NpCos(theta)>>
      v4 == VAdd(v1, VScale(height, perp))
      v3 == VAdd(v2, VScale(height, perp))
  IN <<v1, v2, v4, v3>>

rectangle_w_angle(x, y, width, height, angle_deg) ==
  LET theta == NpDeg2Rad(angle_deg)
      v1 == <<x, y>>
      v2 == VAdd(v1, VScale(width, Direction(theta)))
      perp == Perp(theta)
      v4 == VAdd(v1, VScale(height, perp))
      v3 == VAdd(v2, VScale(height, perp))
  IN <<v1, v2, v3, v4>>

(***************************************************************************)
(* annotate_image (lines 30-58), the part after plt.ginput: None for fewer *)
(* than 3 points, else the rectangle derived from the three clicks.  The   *)
(* drawing calls change nothing the program reads back.                    *)
(***************************************************************************)
None == <<>>

Sq(a) == FMul(a, a)

Distance(p, q) == FSqrt(FAdd(Sq(FSub(p[1], q[1])), Sq(FSub(p[2], q[2]))))

ClickWidth(p) == Distance(p[1], p[2])

\* arctan2 called with its arguments swapped.
MutAngleSwapped(p) ==
  FDiv(FMul(NpArctan2(FSub(p[2][1], p[1][1]), FSub(p[2][2], p[1][2])), F180), NpPi)

ClickAngle(p) ==
  FDiv(FMul(NpArctan2(FSub(p[2][2], p[1][2]), FSub(p[2][1], p[1][1])), F180), NpPi)

\* The height measured from the first click.
MutHeightFromFirst(p) == Distance(p[1], p[3])

ClickHeight(p) == Distance(p[2], p[3])

annotate_image(p) ==
  IF Len(p) < 3 THEN None
  ELSE rectangle_w_angle(p[1][1], p[1][2], ClickWidth(p), ClickHeight(p), ClickAngle(p))

(***************************************************************************)
(* Inputs.                                                                 *)
(***************************************************************************)
Coords == {FromInt(5 * k) : k \in 0..MaxGrid}

GridPoints == Coords \X Coords

\* Click sequences plt.ginput(3) can return: at most 3 points.
Captures(S) == UNION {[1..n -> S] : n \in 0..3}

\* Clicks of the sessions of main: two points of the grid.
SessionPoints == {<<FromInt(0), FromInt(0)>>, <<FromInt(0), FromInt(10)>>}

\* Arguments of rectangle_w_angle.
RectInputs ==
  [x : {FromInt(0), FromInt(10)},
   y : {FromInt(0), FromInt(3)},
   width : {FromInt(0), FromInt(5), FromInt(7), FromInt(10)},
   height : {FromInt(0), FromInt(3), FromInt(5)},
   angle_deg : {FromInt(0), FromInt(30), FromInt(45), FromInt(90), FromInt(180), FromInt(-90)}]

NoCall == [x |-> Zero, y |-> Zero, width |-> Zero, height |-> Zero, angle_deg |-> Zero]

(***************************************************************************)
(* main (lines 60-113).                                                    *)
(***************************************************************************)
imgFiles == 1..NImages

\* An annotation file: absent, or its lines.  A line f"{x} {y}\n" holds the
\* shortest decimal forms that read back as the two numbers, kept here as
\* the pair of numbers.
NoFile == [exists |-> FALSE, lines |-> <<>>]

EmptyFile == [exists |-> TRUE, lines |-> <<>>]

FormatLine(v, i) == <<v[i][1], v[i][2]>>

\* What an earlier run left for an image: nothing, or one rectangle.
StaleFile ==
  LET v == annotate_image(<<<<FromInt(0), FromInt(0)>>, <<FromInt(5), FromInt(0)>>, <<FromInt(5), FromInt(5)>>>>)
  IN [exists |-> TRUE, lines |-> [i \in 1..4 |-> FormatLine(v, i)]]

RECURSIVE SumLen(_, _)
SumLen(f, n) == IF n = 0 THEN 0 ELSE Len(f[n]) + SumLen(f, n - 1)

TotalRects == SumLen(rects, NImages)

Init ==
  /\ pc = "for"
  /\ idx = 1
  /\ prior \in [imgFiles -> {NoFile, StaleFile}]
  /\ disk = prior
  /\ handles = {}
  /\ figOpen = FALSE
  /\ pts = <<>>
  /\ vertices = None
  /\ wi = 0
  /\ rects = [k \in imgFiles |-> <<>>]
  /\ call = NoCall

\* Line 71: the next image of the listing, or the end of main.
ForNext ==
  /\ pc = "for"
  /\ pc' = IF idx <= NImages THEN "imread" ELSE "done"
  /\ UNCHANGED <<idx, disk, prior, handles, figOpen, pts, vertices, wi, rects, call>>

\* Line 77: plt.imread returns the image, or raises; nothing in main catches
\* the exception, which ends main.
Imread ==
  /\ pc = "imread"
  /\ \/ pc' = "open"
     \/ pc' = "crashed"
  /\ UNCHANGED <<idx, disk, prior, handles, figOpen, pts, vertices, wi, rects, call>>

\* Open with mode 'a' in place of 'w': the earlier content is kept.
MutOpenAppend ==
  /\ pc = "open"
  /\ \/ /\ disk' = [disk EXCEPT ![idx].exists = TRUE]
        /\ handles' = handles \cup {idx}
        /\ pc' = "setup"
     \/ /\ pc' = "crashed"
        /\ UNCHANGED <<disk, handles>>
  /\ UNCHANGED <<idx, prior, figOpen, pts, vertices, wi, rects, call>>

\* Lines 80-81: open(anno_filename, 'w') creates the file or truncates it,
\* or raises.
Open ==
  /\ pc = "open"
  /\ \/ /\ disk' = [disk EXCEPT ![idx] = EmptyFile]
        /\ handles' = handles \cup {idx}
        /\ pc' = "setup"
     \/ /\ pc' = "crashed"
        /\ UNCHANGED <<disk, handles>>
  /\ UNCHANGED <<idx, prior, figOpen, pts, vertices, wi, rects, call>>

\* Lines 84-99: the figure, the image and the Next button, any of whose
\* calls may raise.
Setup ==
  /\ pc = "setup"
  /\ \/ /\ figOpen' = TRUE
        /\ pc' = "while"
     \/ /\ pc' = "crashed"
        /\ UNCHANGED figOpen
  /\ UNCHANGED <<idx, disk, prior, handles, pts, vertices, wi, rects, call>>

\* while True in place of the loop test.
MutWhileTrue ==
  /\ pc = "while"
  /\ pc' = "annotate"
  /\ UNCHANGED <<idx, disk, prior, handles, figOpen, pts, vertices, wi, rects, call>>

\* Line 102: the loop test.
WhileTest ==
  /\ pc = "while"
  /\ pc' = IF figOpen THEN "annotate" ELSE "close"
  /\ UNCHANGED <<idx, disk, prior, handles, figOpen, pts, vertices, wi, rects, call>>

\* continue in place of break at line 105.
MutAnnotateContinue ==
  /\ pc = "annotate"
  /\ \E p \in Captures(SessionPoints), closed \in BOOLEAN :
        /\ Len(p) = 3 => (~closed /\ TotalRects < MaxRects)
        /\ pts' = p
        /\ figOpen' = ~closed
        /\ vertices' = annotate_image(p)
        /\ IF vertices' = None
           THEN /\ pc' = "while"
                /\ UNCHANGED <<wi, rects>>
           ELSE /\ pc' = "write"
                /\ wi' = 0
                /\ rects' = [rects EXCEPT ![idx] = Append(@, vertices')]
  /\ UNCHANGED <<idx, disk, prior, handles, call>>

\* Lines 103-105: annotate_image.  plt.ginput(3, timeout=-1) blocks until
\* the third click, or returns the clicks so far when the user stops the
\* input or the window is closed (the Next button, or the window itself).
\* None leaves the loop.  pts is a local of annotate_image: it is kept until
\* main has acted on the value returned, and dropped then.
AnnotateImage ==
  /\ pc = "annotate"
  /\ \E p \in Captures(SessionPoints), closed \in BOOLEAN :
        /\ Len(p) = 3 => (~closed /\ TotalRects < MaxRects)
        /\ pts' = p
        /\ figOpen' = ~closed
        /\ vertices' = annotate_image(p)
        /\ IF vertices' = None
           THEN /\ pc' = "close"
                /\ UNCHANGED <<wi, rects>>
           ELSE /\ pc' = "write"
                /\ wi' = 0
                /\ rects' = [rects EXCEPT ![idx] = Append(@, vertices')]
  /\ UNCHANGED <<idx, disk, prior, handles, call>>

\* range(3) in place of range(4).
MutWriteThree ==
  /\ pc = "write"
  /\ disk' = [disk EXCEPT ![idx].lines = Append(@, FormatLine(vertices, wi + 1))]
  /\ wi' = wi + 1
  /\ pc' = IF wi + 1 < 3 THEN "write" ELSE "pause"
  /\ pts' = <<>>
  /\ UNCHANGED <<idx, prior, handles, figOpen, vertices, rects, call>>

\* Lines 107-109: one pass of the write loop.
WriteLine ==
  /\ pc = "write"
  /\ disk' = [disk EXCEPT ![idx].lines = Append(@, FormatLine(vertices, wi + 1))]
  /\ wi' = wi + 1
  /\ pc' = IF wi + 1 < 4 THEN "write" ELSE "pause"
  /\ pts' = <<>>
  /\ UNCHANGED <<idx, prior, handles, figOpen, vertices, rects, call>>

\* Line 110: plt.pause(2) runs the event loop; the user may close the window.
Pause ==
  /\ pc = "pause"
  /\ \E closed \in BOOLEAN : figOpen' = (figOpen /\ ~closed)
  /\ pc' = "while"
  /\ UNCHANGED <<idx, disk, prior, handles, pts, vertices, wi, rects, call>>

\* Line 112: anno_file.close().
Close ==
  /\ pc = "close"
  /\ handles' = handles \ {idx}
  /\ pc' = "closeall"
  /\ pts' = <<>>
  /\ UNCHANGED <<idx, disk, prior, figOpen, vertices, wi, rects, call>>

\* Line 113: plt.close('all'), and on to the next image.
CloseAll ==
  /\ pc = "closeall"
  /\ figOpen' = FALSE
  /\ idx' = idx + 1
  /\ pc' = "for"
  /\ UNCHANGED <<disk, prior, handles, pts, vertices, wi, rects, call>>

Next ==
  \/ ForNext
  \/ Imread
  \/ Open
  \/ Setup
  \/ WhileTest
  \/ AnnotateImage
  \/ WriteLine
  \/ Pause
  \/ Close
  \/ CloseAll

Spec == Init /\ [][Next]_vars

(***************************************************************************)
(* rectangle_w_angle on its own: the arguments are drawn from RectInputs.  *)
(***************************************************************************)
InitRect ==
  /\ pc = "rect_call"
  /\ call \in RectInputs
  /\ vertices = None
  /\ idx = 1
  /\ prior = [k \in imgFiles |-> NoFile]
  /\ disk = prior
  /\ handles = {}
  /\ figOpen = FALSE
  /\ pts = <<>>
  /\ wi = 0
  /\ rects = [k \in imgFiles |-> <<>>]

RectCall ==
  /\ pc = "rect_call"
  /\ vertices' = rectangle_w_angle(call.x, call.y, call.width, call.height, call.angle_deg)
  /\ pc' = "rect_ret"
  /\ UNCHANGED <<idx, disk, prior, handles, figOpen, pts, wi, rects, call>>

NextRect == RectCall

SpecRect == InitRect /\ [][NextRect]_vars

(***************************************************************************)
(* annotate_image on its own: the clicks are drawn from the grid.          *)
(***************************************************************************)
InitAnnot ==
  /\ pc = "annot_call"
  /\ pts \in Captures(GridPoints)
  /\ vertices = None
  /\ call = NoCall
  /\ idx = 1
  /\ prior = [k \in imgFiles |-> NoFile]
  /\ disk = prior
  /\ handles = {}
  /\ figOpen = TRUE
  /\ wi = 0
  /\ rects = [k \in imgFiles |-> <<>>]

AnnotCall ==
  /\ pc = "annot_call"
  /\ vertices' = annotate_image(pts)
  /\ pc' = "annot_ret"
  /\ UNCHANGED <<idx, disk, prior, handles, figOpen, pts, wi, rects, call>>

NextAnnot == AnnotCall

SpecAnnot == InitAnnot /\ [][NextAnnot]_vars

(***************************************************************************)
(* Properties of main.                                                     *)
(***************************************************************************)
SessionPcs == {"setup", "while", "annotate", "write", "pause", "close"}

\* Image k's annotation file was opened by this run of main.
Opened(k) ==
  \/ k < idx
  \/ k = idx /\ pc \in SessionPcs \cup {"closeall"}
  \/ k = idx /\ pc = "crashed" /\ k \in handles

\* Image k's session is at a loop-iteration boundary, or its file is closed.
AtBoundary(k) ==
  \/ k < idx
  \/ k = idx /\ pc \in {"while", "close", "closeall"}

RECURSIVE RectLines(_)
RectLines(rs) ==
  IF rs = <<>> THEN <<>>
  ELSE [i \in 1..4 |-> FormatLine(Head(rs), i)] \o RectLines(Tail(rs))

\* C1: at every loop-iteration boundary of a session, and once its file is
\* closed, the annotation file holds exactly 4 lines per completed rectangle.
C1_FourLinesPerRectangle ==
  \A k \in imgFiles : AtBoundary(k) => Len(disk[k].lines) = 4 * Len(rects[k])

C1_Witness ==
  /\ pc = "closeall"
  /\ Len(rects[idx]) = 2
  /\ Len(disk[idx].lines) = 8

\* C2: a capture of fewer than 3 points makes annotate_image return None,
\* writes nothing, leaves the lines written so far as they are and ends the
\* session: the file is closed next and no other capture starts, window or
\* no window.
C2_ShortCaptureEndsSession ==
  [][/\ (pc = "annotate" /\ Len(pts') < 3) =>
          (vertices' = None /\ pc' = "close" /\ disk' = disk)
     /\ pc = "close" => (pc' = "closeall" /\ disk' = disk)
     /\ pc = "closeall" => (pc' = "for" /\ idx' = idx + 1 /\ disk' = disk)]_vars

C2_Witness ==
  /\ pc = "close"
  /\ Len(pts) < 3
  /\ vertices = None
  /\ figOpen
  /\ Len(disk[idx].lines) = 4

\* C3: when main is over, a failure on one image has not kept main from
\* the images after it: the for loop has reached the last image.
C3_FailureIsPerImage == pc \in {"done", "crashed"} => idx >= NImages

\* C4: at most one annotation file handle is open, it is the handle of the
\* image whose session is active, and none is open outside a session,
\* whether the session ended normally or on a failure.
C4_HandleClosedWithSession ==
  /\ Cardinality(handles) <= 1
  /\ handles \subseteq {idx}
  /\ pc \notin SessionPcs => handles = {}

\* C8: opening the annotation file creates it empty, whatever an earlier run
\* left; at a boundary and after the session it holds the lines of this
\* session's rectangles and nothing else.
C8_FileHoldsOnlyThisSession ==
  \A k \in imgFiles :
     /\ Opened(k) => disk[k].exists
     /\ (k = idx /\ pc = "setup") => disk[k] = EmptyFile
     /\ AtBoundary(k) => disk[k].lines = RectLines(rects[k])

C8_Witness ==
  /\ pc = "closeall"
  /\ prior[idx] = StaleFile
  /\ rects[idx] = <<>>
  /\ disk[idx] = EmptyFile

\* C9: the loop test comes before every capture; when it finds the window
\* gone, the session goes to close the file, no capture starts, and the
\* lines written stay as they are from the pause on.
C9_SignalCheckedBeforeCapture ==
  [][/\ (pc = "while" /\ ~figOpen) => pc' = "close"
     /\ pc' = "annotate" => (pc = "while" /\ figOpen)
     /\ pc \in {"pause", "while", "close", "closeall"} => disk' = disk
     /\ pc = "close" => handles' = {}]_vars

C9_Witness ==
  /\ pc = "close"
  /\ ~figOpen
  /\ vertices # None
  /\ disk[idx].lines = RectLines(rects[idx])
  /\ Len(rects[idx]) = 1

(***************************************************************************)
(* Exact arithmetic on the values of floating point numbers, for stating   *)
(* the geometric properties.  <<n, e>> is n * 2^e, n any integer.          *)
(***************************************************************************)
DNeg(a) == <<-a[1], a[2]>>

DAbs(a) == <<Abs(a[1]), a[2]>>

DScale(a, k) == IF a[1] = 0 THEN a ELSE <<a[1], a[2] + k>>

DSub(a, b) ==
  IF b[1] = 0 THEN a
  ELSE IF a[1] = 0 THEN DNeg(b)
  ELSE LET em == IF a[2] < b[2] THEN a[2] ELSE b[2]
       IN <<a[1] * Pow2(a[2] - em) - b[1] * Pow2(b[2] - em), em>>

DAdd(a, b) == DSub(a, DNeg(b))

RECURSIVE DNorm(_)
DNorm(a) ==
  IF a[1] = 0 THEN Zero
  ELSE IF a[1] % 2 = 0 THEN DNorm(<<a[1] \div 2, a[2] + 1>>)
  ELSE a

DMul(a, b) == LET x == DNorm(a)  y == DNorm(b) IN <<x[1] * y[1], x[2] + y[2]>>

DMulInt(k, a) == <<k * a[1], a[2]>>

DEq(a, b) == DNorm(a) = DNorm(b)

\* a <= b for a, b > 0: by the place of the leading bit, then aligned.
DLeqPos(a, b) ==
  LET ta == a[2] + BitLen(a[1])
      tb == b[2] + BitLen(b[1])
      em == IF a[2] < b[2] THEN a[2] ELSE b[2]
  IN IF ta # tb THEN ta < tb
     ELSE a[1] * Pow2(a[2] - em) <= b[1] * Pow2(b[2] - em)

DLeq(a, b) ==
  IF a[1] <= 0 /\ b[1] >= 0 THEN TRUE
  ELSE IF a[1] >= 0 /\ b[1] <= 0 THEN FALSE
  ELSE IF a[1] > 0 THEN DLeqPos(DNorm(a), DNorm(b))
  ELSE DLeqPos(DNorm(DNeg(b)), DNorm(DNeg(a)))

\* floor(a * 2^FxBits).
FxBits == 2 * Prec

Fx(a) ==
  LET s == a[2] + FxBits
  IN IF s >= 0 THEN a[1] * Pow2(s)
     ELSE IF -s > 30 THEN (IF a[1] < 0 THEN -1 ELSE 0)
     ELSE a[1] \div Pow2(-s)

\* The integer an integer-valued number stands for.
IntOf(a) == IF a[2] >= 0 THEN a[1] * Pow2(a[2]) ELSE a[1] \div Pow2(-a[2])

(***************************************************************************)
(* Properties of rectangle_w_angle.                                        *)
(***************************************************************************)
RectReturned == pc = "rect_ret"

\* The corners as lines 17-25 compute them, each operation rounded.
CornersAsComputed ==
  LET theta == NpDeg2Rad(call.angle_deg)
      dir == <<NpCos(theta), NpSin(theta)>>
      perp == <<FNeg(NpSin(theta)), NpCos(theta)>>
  IN /\ vertices[1] = <<call.x, call.y>>
     /\ vertices[2] = VAdd(vertices[1], VScale(call.width, dir))
     /\ vertices[3] = VAdd(vertices[2], VScale(call.height, perp))
     /\ vertices[4] = VAdd(vertices[1], VScale(call.height, perp))
     /\ call.width = Zero => vertices[2] = vertices[1]

\* v3 - v2 and v4 - v1, exactly.
SideDiff(i) == DSub(vertices[3][i], vertices[2][i])

EndDiff(i) == DSub(vertices[4][i], vertices[1][i])

SidesEqualExactly == \A i \in 1..2 : DEq(SideDiff(i), EndDiff(i))

\* |x| + |y| + |width| + |height|
CallSize ==
  DAdd(DAdd(DAbs(call.x), DAbs(call.y)), DAdd(DAbs(call.width), DAbs(call.height)))

\* |(v3 - v2) - (v4 - v1)| <= 4 * 2^-Prec * CallSize in each coordinate.
SidesEqualRounded ==
  \A i \in 1..2 :
     \/ DEq(SideDiff(i), EndDiff(i))
     \/ Abs(Fx(SideDiff(i)) - Fx(EndDiff(i))) + 1 <= Fx(DScale(CallSize, 2 - Prec))

\* C5 as stated: the corners are v1 = (x, y), v2 = v1 + width (cos, sin),
\* v3 = v2 + height (-sin, cos), v4 = v1 + height (-sin, cos), with
\* v3 - v2 = v4 - v1 exactly, and width = 0 gives v2 = v1.
C5_CornersExact == RectReturned => (CornersAsComputed /\ SidesEqualExactly)

\* C5 amended: the same corners, each sum and product rounded, so that
\* v3 - v2 and v4 - v1 agree to within 4 units of roundoff of
\* |x| + |y| + |width| + |height|; width = 0 gives v2 = v1 exactly.
C5_CornersRounded == RectReturned => (CornersAsComputed /\ SidesEqualRounded)

C5_Witness ==
  /\ RectReturned
  /\ call.width # Zero
  /\ call.height # Zero
  /\ ~SidesEqualExactly

\* (v2 - v1) . (v4 - v1) as its two products.
DotX == DMul(DSub(vertices[2][1], vertices[1][1]), DSub(vertices[4][1], vertices[1][1]))

DotY == DMul(DSub(vertices[2][2], vertices[1][2]), DSub(vertices[4][2], vertices[1][2]))

DotIsZero == DEq(DotX, DNeg(DotY))

\* |(v2 - v1) . (v4 - v1)| <= 4 * 2^-Prec * CallSize^2
DotIsSmall ==
  LET f == Fx(DotX) + Fx(DotY)
      t == Fx(DScale(DMul(CallSize, CallSize), 2 - Prec))
  IN -t <= f /\ f + 2 <= t

\* C7 as stated: the dot product of v2 - v1 and v4 - v1 is exactly zero
\* for all inputs.
C7_EdgesExactlyPerpendicular == RectReturned => DotIsZero

\* C7 amended: the dot product is zero to within 4 units of roundoff of
\* (|x| + |y| + |width| + |height|)^2, and exactly zero when width = 0 or
\* height = 0.
C7_EdgesPerpendicularRounded ==
  RectReturned =>
     /\ DotIsZero \/ DotIsSmall
     /\ (call.width = Zero \/ call.height = Zero) => DotIsZero

C7_Witness ==
  /\ RectReturned
  /\ ~DotIsZero
  /\ DotIsSmall

(***************************************************************************)
(* Properties of the derivation from three clicks.                         *)
(***************************************************************************)
AnnotReturned == pc = "annot_ret" /\ Len(pts) = 3

Pt(a, b) == <<FromInt(a), FromInt(b)>>

Scenario1 == <<Pt(0, 0), Pt(10, 0), Pt(10, 5)>>

Scenario2 == <<Pt(0, 0), Pt(0, 10), Pt(5, 10)>>

Corners1 == <<Pt(0, 0), Pt(10, 0), Pt(10, 5), Pt(0, 5)>>

Corners2 == <<Pt(0, 0), Pt(0, 10), Pt(-5, 10), Pt(-5, 0)>>

\* Each coordinate of each corner within 64 units of roundoff.
CloseTo(v, w) ==
  \A i \in 1..4 : \A j \in 1..2 :
     DLeq(DAbs(DSub(v[i][j], w[i][j])), <<1, 6 - Prec>>)

\* C6 as stated: the two reference scenarios yield exactly their corners.
C6_ScenariosExact ==
  /\ (AnnotReturned /\ pts = Scenario1) => vertices = Corners1
  /\ (AnnotReturned /\ pts = Scenario2) => vertices = Corners2

\* C6 amended: the first scenario yields exactly its corners; the second
\* yields v1 = (0, 0) exactly and the other corners to within rounding.
C6_ScenariosRounded ==
  /\ (AnnotReturned /\ pts = Scenario1) => vertices = Corners1
  /\ (AnnotReturned /\ pts = Scenario2) =>
        (vertices[1] = Corners2[1] /\ CloseTo(vertices, Corners2))

C6_Witness ==
  /\ AnnotReturned
  /\ pts = Scenario2
  /\ vertices # Corners2

ClickX(k) == IntOf(pts[k][1])

ClickY(k) == IntOf(pts[k][2])

SqDist(p, q) ==
  (IntOf(p[1]) - IntOf(q[1])) * (IntOf(p[1]) - IntOf(q[1]))
  + (IntOf(p[2]) - IntOf(q[2])) * (IntOf(p[2]) - IntOf(q[2]))

\* Third clicks at the same distance from the second click give the same
\* corners.
OnlyThroughDistance ==
  \A q \in GridPoints :
     SqDist(pts[2], q) = SqDist(pts[2], pts[3]) =>
        annotate_image(<<pts[1], pts[2], q>>) = vertices

\* v3 - v2 is on the left of the direction P1 -> P2: the cross product is
\* not negative, and is positive unless a side has length 0.
CrossA == DMulInt(ClickX(2) - ClickX(1), DSub(vertices[3][2], vertices[2][2]))

CrossB == DMulInt(ClickY(2) - ClickY(1), DSub(vertices[3][1], vertices[2][1]))

OnPerpSide ==
  /\ DLeq(CrossB, CrossA)
  /\ (pts[1] # pts[2] /\ pts[2] # pts[3]) => ~DLeq(CrossA, CrossB)

\* v3 is the third click only if the third click is at a right angle, on
\* that side, from the second click.
ThirdClickPerp ==
  /\ (ClickX(2) - ClickX(1)) * (ClickX(3) - ClickX(2))
       + (ClickY(2) - ClickY(1)) * (ClickY(3) - ClickY(2)) = 0
  /\ (ClickX(2) - ClickX(1)) * (ClickY(3) - ClickY(2))
       - (ClickY(2) - ClickY(1)) * (ClickX(3) - ClickX(2)) >= 0

V3OnlyIfPerp == vertices[3] = pts[3] => ThirdClickPerp

\* |x1| + |y1| + |x2| + |y2|
ClickSize ==
  DAdd(DAdd(DAbs(pts[1][1]), DAbs(pts[1][2])), DAdd(DAbs(pts[2][1]), DAbs(pts[2][2])))

\* v2 within 32 units of roundoff of ClickSize from the second click.
V2NearSecondClick ==
  \A j \in 1..2 :
     DLeq(DAbs(DSub(vertices[2][j], pts[2][j])), DScale(ClickSize, 5 - Prec))

====
